---- MODULE Spec2Model ----
(***************************************************************************)
(* mail2do: the schema collector (notion_get_schema.py), the pipeline      *)
(* driver (cli.py, with the argument parser of parse_emails.py) and the    *)
(* uploader (notion_upload.py), as state machines.                         *)
(*                                                                         *)
(* Text that the code manipulates (identifiers, titles, option values) is  *)
(* a sequence of one-character strings, so that str.replace, "".join and   *)
(* sorted() are computed and not assumed.  Property names, which the code  *)
(* only compares and uses as dict keys, are TLA+ strings.                  *)
(***************************************************************************)
EXTENDS Integers, Sequences, FiniteSets, TLC

\* ------------------------------------------------------------------ bounds
\* relation properties per database
MaxRel == 2
\* records a database holds on the server
MaxRecords == 3
\* largest value of the max_rows parameter of collect_reference_rows
MaxCap == 3
\* most records the server returns in one page (page_size)
MaxPageLen == 2

\* -------------------------------------------------------------------- text
\* The characters in use, in code point order.
Alphabet ==
  << "(", ")", "-", "1", "2", "3", "4", "?", "A", "B", "P", "T", "U",
     "a", "b", "c", "d", "e", "i", "l", "n", "p", "r", "t", "u", "x" >>

Ord(c) == CHOOSE i \in 1..Len(Alphabet) : Alphabet[i] = c

\* Python's str < str: by code point, a proper prefix first.
RECURSIVE StrLess(_, _)
StrLess(s, t) ==
  IF t = <<>> THEN FALSE
  ELSE IF s = <<>> THEN TRUE
  ELSE IF Head(s) # Head(t) THEN Ord(Head(s)) < Ord(Head(t))
  ELSE StrLess(Tail(s), Tail(t))

\* A mutant of sorted(): the values in no particular (here: descending) order.
RECURSIVE sorted_descending(_)
sorted_descending(S) ==
  IF S = {} THEN <<>>
  ELSE LET m == CHOOSE x \in S : \A y \in S \ {x} : StrLess(y, x)
       IN  <<m>> \o sorted_descending(S \ {m})

\* sorted(set of str)
RECURSIVE sorted(_)
sorted(S) ==
  IF S = {} THEN <<>>
  ELSE LET m == CHOOSE x \in S : \A y \in S \ {x} : StrLess(x, y)
       IN  <<m>> \o sorted(S \ {m})

\* "".join(fragments)
RECURSIVE join(_)
join(frags) == IF frags = <<>> THEN <<>> ELSE Head(frags) \o join(Tail(frags))

SeqToSet(s) == { s[i] : i \in 1..Len(s) }

\* canonical_id: raw.replace("-", "") if raw else raw
canonical_id(raw) ==
  IF raw = <<>> THEN raw ELSE SelectSeq(raw, LAMBDA c : c # "-")

\* ------------------------------------------------------------------- dicts
\* A Python dict: a sequence of [key, value] in insertion order.
DictKeys(d) == { d[i].key : i \in 1..Len(d) }
DictHas(d, k) == k \in DictKeys(d)
DictGet(d, k) == d[CHOOSE i \in 1..Len(d) : d[i].key = k].value
DictPut(d, k, v) ==
  IF DictHas(d, k)
  THEN [i \in 1..Len(d) |-> IF d[i].key = k THEN [key |-> k, value |-> v] ELSE d[i]]
  ELSE Append(d, [key |-> k, value |-> v])

\* ------------------------------------------------------------- identifiers
A1 == <<"a", "1">>
B2 == <<"b", "2">>
C3 == <<"c", "3">>
D4 == <<"d", "4">>
A1d == <<"a", "-", "1">>
B2d == <<"b", "-", "2">>
C3d == <<"c", "-", "3">>
AllCids == {A1, B2, C3, D4}

UNRESOLVED == <<"?">>
UNRESOLVED_NAME == "?"
Untitled == <<"(", "U", "n", "t", "i", "t", "l", "e", "d", ")">>
\* next_cursor = None (no continuation token); a token is the offset it resumes at
NoCursor == 0

\* ------------------------------------------------------- database payloads
\* One property definition of a database, as GET /v1/databases/{id} returns it.
\* database_id is read for type "relation", the two property ids for type
\* "rollup", options for the choice types; the other fields are then unused.
Prop(name, id, type, database_id, relation_property_id, rollup_property_id, options) ==
  [ name |-> name, id |-> id, type |-> type, database_id |-> database_id,
    relation_property_id |-> relation_property_id,
    rollup_property_id |-> rollup_property_id, options |-> options ]

PlainProp(name, id, type) == Prop(name, id, type, <<>>, <<>>, <<>>, <<>>)
RelationProp(name, id, target) == Prop(name, id, "relation", target, <<>>, <<>>, <<>>)
RollupProp(name, id, rel_pid, roll_pid) == Prop(name, id, "rollup", <<>>, rel_pid, roll_pid, <<>>)
ChoiceProp(name, id, type, options) == Prop(name, id, type, <<>>, <<>>, <<>>, options)

\* db_json: title is the rich-text array (a sequence of plain_text fragments),
\* properties the property dict in the order of the payload.
Database(id, title, properties) ==
  [ id |-> id, title |-> title, properties |-> properties ]

\* db_json["properties"].get(name)
HasProp(db_json, name) ==
  \E i \in 1..Len(db_json.properties) : db_json.properties[i].name = name
GetProp(db_json, name) ==
  db_json.properties[CHOOSE i \in 1..Len(db_json.properties) :
                        db_json.properties[i].name = name]

\* One cell of a record returned by the query endpoint.  texts: the title
\* fragments (type title), the people's names, "" for a person without one
\* (type people), the related page ids (type relation).
Cell(name, type, texts) == [ name |-> name, type |-> type, texts |-> texts ]

\* ------------------------------------------------ notion_get_schema: fetch
\* fetch_database_or_warn.  status is the answer of the GET, read only when the
\* request is made.  requested: whether a GET went out.
fetch_database_or_warn(db_id, db_pool, missing, status, body) ==
  LET cid == canonical_id(db_id) IN
  IF DictHas(db_pool, cid)
  THEN [ db_json |-> DictGet(db_pool, cid), found |-> TRUE, requested |-> FALSE,
         db_pool |-> db_pool, missing |-> missing ]
  ELSE IF status = 200
  THEN [ db_json |-> body, found |-> TRUE, requested |-> TRUE,
         db_pool |-> DictPut(db_pool, cid, body), missing |-> missing ]
  ELSE [ db_json |-> body, found |-> FALSE, requested |-> TRUE,
         db_pool |-> db_pool, missing |-> missing \cup {db_id} ]

\* A mutant of relation_targets_to_enqueue: the scan stops at the first
\* relation property.
RECURSIVE first_relation_target_only(_, _)
first_relation_target_only(props, db_pool) ==
  IF props = <<>> THEN <<>>
  ELSE LET prop == Head(props) IN
       IF prop.type = "relation"
       THEN (IF ~DictHas(db_pool, canonical_id(prop.database_id))
             THEN <<prop.database_id>> ELSE <<>>)
       ELSE first_relation_target_only(Tail(props), db_pool)

\* A mutant of relation_targets_to_enqueue: every relation target is appended,
\* pooled or not.
RECURSIVE relation_targets_unchecked(_, _)
relation_targets_unchecked(props, db_pool) ==
  IF props = <<>> THEN <<>>
  ELSE LET prop == Head(props)
           rest == relation_targets_unchecked(Tail(props), db_pool)
       IN  IF prop.type = "relation" THEN <<prop.database_id>> \o rest ELSE rest

\* The loop body of main after the fetch: the relation targets appended to the
\* frontier, in property order.
RECURSIVE relation_targets_to_enqueue(_, _)
relation_targets_to_enqueue(props, db_pool) ==
  IF props = <<>> THEN <<>>
  ELSE LET prop == Head(props)
           rest == relation_targets_to_enqueue(Tail(props), db_pool)
       IN  IF prop.type = "relation" /\ ~DictHas(db_pool, canonical_id(prop.database_id))
           THEN <<prop.database_id>> \o rest
           ELSE rest

\* --------------------------------------- notion_get_schema: extract_schema
\* property_id_map: {id.replace("-", ""): name}; of two properties with one
\* normalized id the later wins.
property_id_map(db_json) ==
  LET props == db_json.properties
      ids == { SelectSeq(props[i].id, LAMBDA c : c # "-") : i \in 1..Len(props) }
      last(pid) == CHOOSE i \in 1..Len(props) :
                     /\ SelectSeq(props[i].id, LAMBDA c : c # "-") = pid
                     /\ \A j \in (i+1)..Len(props) :
                          SelectSeq(props[j].id, LAMBDA c : c # "-") # pid
  IN  [ pid \in ids |-> props[last(pid)].name ]

\* A result or the exception raised in its place.
Return(v) == [ ok |-> TRUE, val |-> v, exc |-> "" ]
Raise(e) == [ ok |-> FALSE, val |-> <<>>, exc |-> e ]

\* db.get("title", [{}])[0].get("plain_text", "?"): the first fragment of the
\* title; an empty title array has no element 0.
first_title_fragment(db) ==
  IF db.title = <<>> THEN Raise("IndexError") ELSE Return(db.title[1])

\* The relation branch of extract_schema.
relation_entry(p, db_pool) ==
  LET rel_db_id == p.database_id
      cid == canonical_id(rel_db_id)
      base == [ type |-> "relation", related_database_id |-> rel_db_id ]
  IN  IF ~DictHas(db_pool, cid)
      THEN Return(base @@ [ related_database_title |-> UNRESOLVED ])
      ELSE LET t == first_title_fragment(DictGet(db_pool, cid))
           IN  IF t.ok THEN Return(base @@ [ related_database_title |-> t.val ])
               ELSE t

\* The rollup branch of extract_schema.
rollup_entry(p, db_json, db_pool) ==
  LET pid_to_name == property_id_map(db_json)
      rel_prop_id == SelectSeq(p.relation_property_id, LAMBDA c : c # "-")
      roll_prop_id == SelectSeq(p.rollup_property_id, LAMBDA c : c # "-")
      rel_name == IF rel_prop_id \in DOMAIN pid_to_name
                  THEN pid_to_name[rel_prop_id] ELSE UNRESOLVED_NAME
      base == [ type |-> "rollup",
                relation_property_id |-> p.relation_property_id,
                relation_property_name |-> rel_name,
                rollup_property_id |-> p.rollup_property_id ]
      has_parent == HasProp(db_json, rel_name)
      parent_rel_prop == GetProp(db_json, rel_name)
  IN  IF ~has_parent THEN Return(base)
      ELSE IF parent_rel_prop.type # "relation" THEN Raise("KeyError")
      ELSE LET target_db_id == parent_rel_prop.database_id
               cid == canonical_id(target_db_id)
           IN  IF target_db_id = <<>> \/ ~DictHas(db_pool, cid) THEN Return(base)
               ELSE LET target_db == DictGet(db_pool, cid)
                        target_pid_map == property_id_map(target_db)
                        t == first_title_fragment(target_db)
                    IN  IF ~t.ok THEN t
                        ELSE Return(base @@
                          [ rollup_property_name |->
                              IF roll_prop_id \in DOMAIN target_pid_map
                              THEN target_pid_map[roll_prop_id] ELSE UNRESOLVED_NAME,
                            related_database_id |-> target_db_id,
                            related_database_title |-> t.val ])

\* One iteration of the loop of extract_schema.
property_entry(p, db_json, db_pool) ==
  IF p.type = "relation" THEN relation_entry(p, db_pool)
  ELSE IF p.type = "rollup" THEN rollup_entry(p, db_json, db_pool)
  ELSE Return([ type |-> p.type ])

RECURSIVE extract_properties(_, _, _)
extract_properties(props, db_json, db_pool) ==
  IF props = <<>> THEN Return(<<>>)
  ELSE LET e == property_entry(Head(props), db_json, db_pool) IN
       IF ~e.ok THEN e
       ELSE LET rest == extract_properties(Tail(props), db_json, db_pool) IN
            IF ~rest.ok THEN rest
            ELSE Return(<<[ key |-> Head(props).name, value |-> e.val ]>> \o rest.val)

\* "".join(plain_text of every fragment) or "(Untitled)"
own_title(db_json) ==
  IF join(db_json.title) = <<>> THEN Untitled ELSE join(db_json.title)

extract_schema(db_json, db_pool) ==
  LET out_props == extract_properties(db_json.properties, db_json, db_pool) IN
  IF ~out_props.ok THEN out_props
  ELSE Return([ id |-> db_json.id, title |-> own_title(db_json),
                properties |-> out_props.val ])

\* ------------------------------- notion_get_schema: collect_reference_rows
ChoiceTypes == {"select", "multi_select", "status"}

\* The first loop: ref[name] = set(options) for every choice property with options.
RECURSIVE seed_into(_, _)
seed_into(ref, props) ==
  IF props = <<>> THEN ref
  ELSE LET prop == Head(props) IN
       seed_into(IF prop.type \in ChoiceTypes /\ prop.options # <<>>
                 THEN DictPut(ref, prop.name, SeqToSet(prop.options))
                 ELSE ref,
                 Tail(props))

seed_reference(props) == seed_into(<<>>, props)

\* ref.setdefault(name, set()).update(values)
add_values(ref, name, values) ==
  IF DictHas(ref, name) THEN DictPut(ref, name, DictGet(ref, name) \cup values)
  ELSE DictPut(ref, name, values)

\* What one cell contributes: the joined title if not empty, the people's
\* names that are not empty, the related ids that are not empty.
cell_values(cell) ==
  IF cell.type = "title"
  THEN (IF join(cell.texts) # <<>> THEN {join(cell.texts)} ELSE {})
  ELSE IF cell.type \in {"people", "relation"}
  THEN { t \in SeqToSet(cell.texts) : t # <<>> }
  ELSE {}

\* setdefault creates the key only when a value is added.
RECURSIVE add_row(_, _)
add_row(ref, cells) ==
  IF cells = <<>> THEN ref
  ELSE LET cell == Head(cells)
           vs == cell_values(cell)
       IN  add_row(IF vs = {} THEN ref ELSE add_values(ref, cell.name, vs), Tail(cells))

RECURSIVE add_rows(_, _)
add_rows(ref, rows) ==
  IF rows = <<>> THEN ref ELSE add_rows(add_row(ref, Head(rows)), Tail(rows))

\* What collect_reference_rows returns once the paging loop has left `rows`.
reference_from(db_json, rows) ==
  LET ref == add_rows(seed_reference(db_json.properties), rows)
  IN  [ i \in 1..Len(ref) |-> [ key |-> ref[i].key, value |-> sorted(ref[i].value) ] ]

\* A mutant of cap_reached: the loop goes on at exactly max_rows records.
cap_reached_strict(rows, max_rows) == Len(rows) > max_rows

\* if len(rows) >= max_rows: break
cap_reached(rows, max_rows) == Len(rows) >= max_rows

\* The query endpoint: given the continuation token, a page of at most n
\* records of the database, has_more and the next token.
query_page(records, start_cursor, n) ==
  LET from == start_cursor
      upto == IF from + n > Len(records) THEN Len(records) ELSE from + n
      more == upto < Len(records)
  IN  [ results |-> SubSeq(records, from + 1, upto),
        has_more |-> more,
        next_cursor |-> IF more THEN upto ELSE NoCursor ]

\* The normalized form of an identifier: its characters other than "-".  The
\* server takes an identifier in either form, and the logs count by it.
Normalized(raw) == SelectSeq(raw, LAMBDA c : c # "-")

\* ------------------------------------------------------------------ worlds
\* What the run meets: the databases the integration can read (server, by
\* normalized id; any other id answers 404), the records each holds, the root
\* identifier of .env and the max_rows the sampling runs with.
SeqsUpTo(S, n) == UNION { [1..k -> S] : k \in 0..n }

RelNames == <<"R1", "R2", "R3", "R4">>
RelIds == << <<"r", "1">>, <<"r", "2">>, <<"r", "3">>, <<"r", "4">> >>
TitleProp == PlainProp("Name", <<"t">>, "title")

relation_props(targets) ==
  [ i \in 1..Len(targets) |-> RelationProp(RelNames[i], RelIds[i], targets[i]) ]

GraphDb(id, title, targets) ==
  Database(id, title, <<TitleProp>> \o relation_props(targets))

NoRecords == [ cid \in AllCids |-> <<>> ]

\* Relation graphs over a1 (the root), b2, c3 and the unreadable d4, with
\* targets written with and without separators: several relations to one
\* target, a cycle a1 -> b2 -> a1, c3 relating to itself.
GraphWorlds ==
  { [ server |-> (A1 :> GraphDb(A1d, << <<"A">> >>, ta)
                  @@ B2 :> GraphDb(B2d, << <<"B">> >>, tb)
                  @@ C3 :> GraphDb(C3d, << <<"T">> >>, tc)),
      records |-> NoRecords, main_id |-> A1d, max_rows |-> MaxCap ] :
    ta \in SeqsUpTo({B2, B2d, C3}, MaxRel),
    tb \in SeqsUpTo({C3d, D4, A1}, MaxRel),
    tc \in SeqsUpTo({C3}, 1) }

\* a1 rolls a property of its relation target up; the target, the two
\* property ids of the rollup and the target's title vary.
RollupWorlds ==
  { [ server |-> (A1 :> Database(A1d, << <<"A">> >>,
                        << TitleProp,
                           RelationProp("Rel", <<"r", "1">>, target),
                           RollupProp("Roll", <<"r", "2">>, rel_pid, roll_pid) >>)
                  @@ B2 :> Database(B2d, title,
                        << TitleProp,
                           ChoiceProp("Status", <<"p", "-", "1">>, "status",
                                      << <<"B">>, <<"A">> >>),
                           PlainProp("Sum", <<"p", "2">>, "formula") >>)),
      records |-> NoRecords, main_id |-> A1, max_rows |-> MaxCap ] :
    target \in {B2, B2d, D4},
    rel_pid \in { <<"r", "1">>, <<"r", "-", "1">>, <<"t">>, <<"x">> },
    roll_pid \in { <<"p", "1">>, <<"t">>, <<"x">> },
    title \in { <<>>, << <<"T">> >>, << <<"T">>, <<"x">> >> } }

\* One database with choice properties and records; the declared options, the
\* records and the cap vary.
OptionLists ==
  { <<>>, << <<"B">>, <<"A">> >>, << <<"A">>, <<"B">>, <<"A">> >>,
    << <<"a">>, <<"B">>, <<"A", "B">> >> }

RecordKinds ==
  { << Cell("Name", "title", << <<"B">> >>), Cell("Sel", "select", <<>>) >>,
    << Cell("Name", "title", << <<"A">>, <<"x">> >>),
       Cell("Who", "people", << <<"P">>, <<>> >>),
       Cell("Self", "relation", << <<"x", "-", "1">> >>) >>,
    << Cell("Name", "title", <<>>), Cell("Who", "people", <<>>) >> }

ReferenceWorlds ==
  { [ server |-> (A1 :> Database(A1d, << <<"A">> >>,
                        << TitleProp,
                           ChoiceProp("Sel", <<"p", "1">>, "select", options),
                           ChoiceProp("Tags", <<"p", "2">>, "multi_select", <<>>),
                           PlainProp("Who", <<"p", "3">>, "people"),
                           RelationProp("Self", <<"p", "4">>, A1d) >>)),
      records |-> [ cid \in AllCids |-> IF cid = A1 THEN recs ELSE <<>> ],
      main_id |-> A1, max_rows |-> cap ] :
    options \in OptionLists,
    recs \in SeqsUpTo(RecordKinds, MaxRecords),
    cap \in 1..MaxCap }

\* A chain a1 -> b2 -> c3 in which a1 holds records and declares options,
\* and the title of c3, the last database pooled, varies.
ChainWorlds ==
  { [ server |-> (A1 :> Database(A1d, << <<"A">> >>,
                        << TitleProp,
                           ChoiceProp("Sel", <<"p", "1">>, "select",
                                      << <<"B">>, <<"A">> >>),
                           PlainProp("Who", <<"p", "3">>, "people"),
                           RelationProp("Next", <<"r", "1">>, B2) >>)
                  @@ B2 :> GraphDb(B2d, << <<"B">> >>, << C3d >>)
                  @@ C3 :> GraphDb(C3d, title, <<>>)),
      records |-> [ cid \in AllCids |-> IF cid = A1 THEN recs ELSE <<>> ],
      main_id |-> A1, max_rows |-> MaxCap ] :
    title \in { <<>>, << <<"T">> >> },
    recs \in SeqsUpTo(RecordKinds, MaxRecords) }

Worlds == GraphWorlds \cup RollupWorlds \cup ReferenceWorlds \cup ChainWorlds

\* ------------------------------------------------------------------- state
VARIABLES
  world,        \* the world of this run (never changes)
  pc,           \* where notion_get_schema.main stands
  bfs,          \* main: the frontier
  db_pool,      \* main: normalized id -> db_json, in insertion order
  missing,      \* main: the identifiers whose GET failed
  idx,          \* main: position of the second loop in db_pool.items()
  schema_out,   \* main: normalized id -> extracted schema
  ref_out,      \* main: normalized id -> reference
  rows,         \* collect_reference_rows: the records received
  next_cursor,  \* collect_reference_rows: the continuation token
  exc,          \* the exception that ended main, "" while none
  gets,         \* log: GET requests sent, per normalized id
  enqueued,     \* log: appends to the frontier, per normalized id
  queries,      \* log: responses to the page requests of the current database
  capped,       \* log: a page request was sent with the cap already reached
  failed_pages  \* log: the pool keys whose sampling a failed page request ended

schemaVars ==
  << world, pc, bfs, db_pool, missing, idx, schema_out, ref_out, rows,
     next_cursor, exc, gets, enqueued, queries, capped, failed_pages >>

\* cli.main and its stages
VARIABLES
  entry,      \* what was started: "cli", or one stage called directly
  todo,       \* the commands still to run
  files,      \* file name -> "absent", "old" (of an earlier run), "empty", "new"
  status,     \* exit status of the process started, -1 while it runs
  ran,        \* log: the stages that exited with status 0, in order
  io_failed,  \* log: the external I/O of some stage failed
  read_tasks  \* log: the state of tasks.json when the upload stage read it

cliVars == << entry, todo, files, status, ran, io_failed, read_tasks >>

\* notion_upload.main
VARIABLES
  tasks,       \* json.load of tasks.json
  upc,         \* where notion_upload.main stands
  ti,          \* the task the loop is at
  results,     \* main: results
  uexc,        \* the exception that ended main, "" while none
  requests     \* log: the requests sent, [kind, task, answer]

uploadVars == << tasks, upc, ti, results, uexc, requests >>


\* Occurrences of normalized id cid among the raw ids of s.
RECURSIVE count_of(_, _)
count_of(s, cid) ==
  IF s = <<>> THEN 0
  ELSE (IF Normalized(Head(s)) = cid THEN 1 ELSE 0) + count_of(Tail(s), cid)

\* main up to the first test of the loop: db_pool, missing = {}, set();
\* bfs = deque([main_id])
InitSchema ==
  /\ world \in Worlds
  /\ pc = "bfs"
  /\ bfs = << world.main_id >>
  /\ db_pool = <<>>
  /\ missing = {}
  /\ idx = 0
  /\ schema_out = <<>>
  /\ ref_out = <<>>
  /\ rows = <<>>
  /\ next_cursor = NoCursor
  /\ exc = ""
  /\ gets = [ cid \in AllCids |-> 0 ]
  /\ enqueued = [ cid \in AllCids |-> count_of(<< world.main_id >>, cid) ]
  /\ queries = <<>>
  /\ capped = FALSE
  /\ failed_pages = {}

\* The answers the GET of db_id can get: 200 with the database or a failure
\* (rate limit, outage) when the integration can read it, 404 otherwise.
GetAnswers(db_id) ==
  IF Normalized(db_id) \in DOMAIN world.server
  THEN { [ status |-> 200, body |-> world.server[Normalized(db_id)] ],
         [ status |-> 429, body |-> <<>> ] }
  ELSE { [ status |-> 404, body |-> <<>> ] }

\* One iteration of `while bfs`: popleft, fetch, scan the relations.
BfsIter ==
  /\ pc = "bfs"
  /\ bfs # <<>>
  /\ \E answer \in GetAnswers(Head(bfs)) :
       LET db_id == Head(bfs)
           r == fetch_database_or_warn(db_id, db_pool, missing,
                                       answer.status, answer.body)
           new == IF r.found
                  THEN relation_targets_to_enqueue(r.db_json.properties, r.db_pool)
                  ELSE <<>>
       IN  /\ db_pool' = r.db_pool
           /\ missing' = r.missing
           /\ bfs' = Tail(bfs) \o new
           /\ gets' = IF r.requested
                      THEN [ gets EXCEPT ![Normalized(db_id)] = @ + 1 ]
                      ELSE gets
           /\ enqueued' = [ cid \in AllCids |-> enqueued[cid] + count_of(new, cid) ]
  /\ UNCHANGED << world, pc, idx, schema_out, ref_out, rows, next_cursor, exc,
                  queries, capped,
                  failed_pages >>
  /\ UNCHANGED << cliVars, uploadVars >>

\* The frontier is empty: on to `for cid, db_json in db_pool.items()`.
BfsEnd ==
  /\ pc = "bfs"
  /\ bfs = <<>>
  /\ pc' = "extract"
  /\ idx' = 1
  /\ UNCHANGED << world, bfs, db_pool, missing, schema_out, ref_out, rows,
                  next_cursor, exc, gets, enqueued, queries, capped,
                  failed_pages >>
  /\ UNCHANGED << cliVars, uploadVars >>

\* schema_out[cid] = extract_schema(db_json, db_pool), then
\* collect_reference_rows up to its paging loop.
Extract ==
  /\ pc = "extract"
  /\ idx <= Len(db_pool)
  /\ LET r == extract_schema(db_pool[idx].value, db_pool) IN
       IF r.ok
       THEN /\ schema_out' = DictPut(schema_out, db_pool[idx].key, r.val)
            /\ pc' = "query"
            /\ exc' = exc
       ELSE /\ schema_out' = schema_out
            /\ pc' = "crashed"
            /\ exc' = r.exc
  /\ rows' = <<>>
  /\ next_cursor' = NoCursor
  /\ queries' = <<>>
  /\ UNCHANGED << world, bfs, db_pool, missing, idx, ref_out, gets, enqueued,
                  capped,
                  failed_pages >>
  /\ UNCHANGED << cliVars, uploadVars >>

\* One iteration of `while True`: a page request and what follows its answer.
QueryPage ==
  /\ pc = "query"
  /\ capped' = (capped \/ Len(rows) >= world.max_rows)
  /\ \/ \* not resp.ok: break
        /\ queries' = Append(queries, "failed")
        /\ failed_pages' = failed_pages \cup { db_pool[idx].key }
        /\ pc' = "collect"
        /\ UNCHANGED << rows, next_cursor >>
     \/ \E n \in 1..MaxPageLen :
          LET result == query_page(world.records[Normalized(db_pool[idx].value.id)],
                                   next_cursor, n)
              got == rows \o result.results
          IN  /\ queries' = Append(queries, IF result.has_more THEN "more" ELSE "last")
              /\ rows' = got
              /\ failed_pages' = failed_pages
              /\ next_cursor' = result.next_cursor
              /\ pc' = IF ~result.has_more \/ cap_reached(got, world.max_rows)
                       THEN "collect" ELSE "query"
  /\ UNCHANGED << world, bfs, db_pool, missing, idx, schema_out, ref_out, exc,
                  gets, enqueued >>
  /\ UNCHANGED << cliVars, uploadVars >>

\* The rest of collect_reference_rows, and ref_out[cid] = its result.
Collect ==
  /\ pc = "collect"
  /\ ref_out' = DictPut(ref_out, db_pool[idx].key,
                        reference_from(db_pool[idx].value, rows))
  /\ idx' = idx + 1
  /\ pc' = "extract"
  /\ UNCHANGED << world, bfs, db_pool, missing, schema_out, rows, next_cursor,
                  exc, gets, enqueued, queries, capped,
                  failed_pages >>
  /\ UNCHANGED << cliVars, uploadVars >>

\* print(json.dumps(result)) and the warnings: main returns.
Emit ==
  /\ pc = "extract"
  /\ idx > Len(db_pool)
  /\ pc' = "done"
  /\ UNCHANGED << world, bfs, db_pool, missing, idx, schema_out, ref_out, rows,
                  next_cursor, exc, gets, enqueued, queries, capped,
                  failed_pages >>
  /\ UNCHANGED << cliVars, uploadVars >>


\* ------------------------------------------------ properties of the collector
HasField(r, f) == f \in DOMAIN r

\* The relation targets a database declares, normalized.
RelationTargets(db) ==
  { Normalized(db.properties[i].database_id) :
      i \in { j \in 1..Len(db.properties) : db.properties[j].type = "relation" } }

\* The databases reachable from the root through relation properties.
RECURSIVE ReachableFrom(_)
ReachableFrom(S) ==
  LET next == S \cup UNION { RelationTargets(world.server[c]) :
                              c \in S \cap DOMAIN world.server }
  IN  IF next = S THEN S ELSE ReachableFrom(next)

Reachable == ReachableFrom({ Normalized(world.main_id) })

\* Relation properties of readable databases that point at cid.
References(cid) ==
  { <<c, i>> \in (DOMAIN world.server) \X (1..(MaxRel + 5)) :
      /\ i <= Len(world.server[c].properties)
      /\ world.server[c].properties[i].type = "relation"
      /\ Normalized(world.server[c].properties[i].database_id) = cid }

C2_MissingNotInPayload ==
  pc = "done" =>
     \A raw \in missing :
        Normalized(raw) \notin (DictKeys(schema_out) \cup DictKeys(ref_out))

\* C3: a database that two or more relation properties point at is sent at
\* most one GET during the traversal.
C3_OneGetPerTarget ==
  \A cid \in AllCids : Cardinality(References(cid)) >= 2 => gets[cid] <= 1

\* C10: an identifier, in normalized form, is appended to the frontier at
\* most once over the run.
C10_EnqueuedAtMostOnce ==
  \A cid \in AllCids : enqueued[cid] <= 1

\* The entries of type ptype in the emitted schema: <<database key, name, entry>>.
EntriesOfType(ptype) ==
  { <<schema_out[i].key, schema_out[i].value.properties[j].key,
      schema_out[i].value.properties[j].value>> :
      <<i, j>> \in { <<i, j>> \in (1..Len(schema_out)) \X (1..(MaxRel + 5)) :
                       /\ j <= Len(schema_out[i].value.properties)
                       /\ schema_out[i].value.properties[j].value.type = ptype } }

\* The properties of db whose normalized id is that of pid.
PropsWithId(db, pid) ==
  { db.properties[i] : i \in { j \in 1..Len(db.properties) :
                                 Normalized(db.properties[j].id) = Normalized(pid) } }

\* C4: a rollup entry whose relation property id names a local relation
\* property with a pooled target, and whose rollup property id names a
\* property of that target, carries that property's name and the target's
\* title; one whose relation property is not found or whose target is not
\* pooled carries "?" in rollup_property_name and related_database_title.
C4_RollupResolution ==
  \A x \in EntriesOfType("rollup") :
     LET db == DictGet(db_pool, x[1])
         p == GetProp(db, x[2])
         e == x[3]
         local == PropsWithId(db, p.relation_property_id)
         rels == { q \in local : q.type = "relation" }
         target == Normalized((CHOOSE q \in rels : TRUE).database_id)
         pooled == rels # {} /\ DictHas(db_pool, target)
         aimed == PropsWithId(DictGet(db_pool, target), p.rollup_property_id)
     IN  /\ (pooled /\ aimed # {}) =>
               /\ HasField(e, "rollup_property_name")
               /\ e.rollup_property_name \in { q.name : q \in aimed }
               /\ HasField(e, "related_database_title")
               /\ e.related_database_title = DictGet(schema_out, target).title
         /\ (local = {} \/ (rels # {} /\ ~DictHas(db_pool, target))) =>
               /\ HasField(e, "rollup_property_name")
               /\ e.rollup_property_name = UNRESOLVED_NAME
               /\ HasField(e, "related_database_title")
               /\ e.related_database_title = UNRESOLVED

\* C5: in the emitted schema a relation entry whose target is pooled carries
\* the title of the target, never "?"; one whose target is not pooled
\* carries exactly "?".
C5_RelationTitles ==
  pc = "done" =>
     \A x \in EntriesOfType("relation") :
        LET target == Normalized(x[3].related_database_id) IN
        IF DictHas(db_pool, target)
        THEN /\ x[3].related_database_title = DictGet(schema_out, target).title
             /\ x[3].related_database_title # UNRESOLVED
        ELSE x[3].related_database_title = UNRESOLVED

StrictlyAscending(s) == \A i \in 1..(Len(s) - 1) : StrLess(s[i], s[i + 1])

\* C6: the reference of a database lists, for every choice property with
\* declared options, exactly those options, each once, in ascending order.
C6_ChoiceOptionsSorted ==
  \A i \in 1..Len(ref_out) :
     LET db == DictGet(db_pool, ref_out[i].key)
         ref == ref_out[i].value
     IN  \A j \in 1..Len(db.properties) :
            LET p == db.properties[j] IN
            (p.type \in ChoiceTypes /\ p.options # <<>>) =>
               /\ DictHas(ref, p.name)
               /\ StrictlyAscending(DictGet(ref, p.name))
               /\ SeqToSet(DictGet(ref, p.name)) = SeqToSet(p.options)

\* C6 happens: the only page request failed, and the three options declared
\* out of order are listed.
C6_Witness ==
  /\ pc = "done"
  /\ queries = <<"failed">>
  /\ DictHas(ref_out, A1)
  /\ DictHas(DictGet(ref_out, A1), "Sel")
  /\ DictGet(DictGet(ref_out, A1), "Sel") = << <<"A", "B">>, <<"B">>, <<"a">> >>

\* C7: no page request is sent once the records received reach max_rows.
C7_NoRequestPastCap == ~capped

\* C7 happens: the loop was left with max_rows records or more although the
\* last response announced more pages.
C7_Witness ==
  /\ pc = "collect"
  /\ Len(rows) >= world.max_rows
  /\ queries # <<>>
  /\ queries[Len(queries)] = "more"

\* ===================================================================== cli
\* A command-line word: its characters, the leading "-" one by one (what
\* argparse looks at), the rest in one piece.
EmailsJson == <<"emails.json">>
SchemaJson == <<"schema.json">>
TasksJson == <<"tasks.json">>
UploadResultsJson == <<"upload_results.json">>
DashO == <<"-", "o">>
IgnoreLog == <<"-", "-", "ignore-log">>
Words == { EmailsJson, SchemaJson, TasksJson, DashO, IgnoreLog }
Files == { EmailsJson, SchemaJson, TasksJson, UploadResultsJson }

\* most words on the command line of a direct call of mail2do-parse-emails
MaxArgs == 4

\* The option strings the parser of parse_emails.main declares.
OptionStrings == { IgnoreLog }

\* parser.parse_args() of parse_emails.main: the words that start with "-"
\* are options, the others fill emails_json and schema_json in order; an
\* undeclared option, a missing or a surplus positional ends the process with
\* status 2.
parse_args(argv) ==
  LET positional == SelectSeq(argv, LAMBDA w : Head(w) # "-")
      unknown == SelectSeq(argv, LAMBDA w : Head(w) = "-" /\ w \notin OptionStrings)
  IN  IF Len(positional) # 2 \/ unknown # <<>>
      THEN [ status |-> 2, ignore_log |-> FALSE, emails_json |-> <<>>,
             schema_json |-> <<>> ]
      ELSE [ status |-> 0, ignore_log |-> (\E i \in 1..Len(argv) : argv[i] = IgnoreLog),
             emails_json |-> positional[1], schema_json |-> positional[2] ]

\* One call of run(cmd, outfile); outfile <<>> is None.
Command(prog, argv, outfile) == [ prog |-> prog, argv |-> argv, outfile |-> outfile ]

\* The four calls of cli.main, in order.
Pipeline ==
  << Command("mail2do-fetch-emails", <<>>, EmailsJson),
     Command("mail2do-get-schema", <<>>, SchemaJson),
     Command("mail2do-parse-emails", << EmailsJson, SchemaJson, DashO, TasksJson >>, <<>>),
     Command("mail2do-upload", << TasksJson >>, UploadResultsJson) >>


\* with open(outfile, "w"): the file exists and is empty before the child starts.
opened(fs, outfile) ==
  IF outfile = <<>> THEN fs ELSE [ fs EXCEPT ![outfile] = "empty" ]

\* The child wrote its standard output.
written(fs, outfile) ==
  IF outfile = <<>> THEN fs ELSE [ fs EXCEPT ![outfile] = "new" ]

\* run: the child exited with child_status; a status other than 0 raises
\* CalledProcessError and sys.exit(message) ends cli with status 1.
after_run(child_status) ==
  IF child_status = 0
  THEN /\ todo' = Tail(todo)
       /\ ran' = Append(ran, Head(todo).prog)
       /\ status' = IF Tail(todo) = <<>> THEN 0 ELSE status
  ELSE /\ todo' = <<>>
       /\ ran' = ran
       /\ status' = IF entry = "cli" THEN 1 ELSE child_status

InitCli ==
  /\ \/ /\ entry = "cli"
        /\ todo = Pipeline
     \/ /\ entry = "mail2do-parse-emails"
        /\ \E argv \in SeqsUpTo(Words, MaxArgs), out \in { <<>>, TasksJson } :
             todo = << Command("mail2do-parse-emails", argv, out) >>
     \/ /\ entry = "mail2do-upload"
        /\ todo = << Command("mail2do-upload", << TasksJson >>, UploadResultsJson) >>
     \/ /\ entry \in { "mail2do-fetch-emails", "mail2do-get-schema" }
        /\ todo = << Command(entry, <<>>,
                             IF entry = "mail2do-fetch-emails" THEN EmailsJson
                             ELSE SchemaJson) >>
  /\ files \in [ Files -> { "absent", "old" } ]
  /\ files[UploadResultsJson] = "absent"
  /\ status = -1
  /\ ran = <<>>
  /\ io_failed = FALSE
  /\ read_tasks = "unread"

\* fetch_emails.fetch_emails: the mailbox answers or not.
RunFetchEmails ==
  /\ todo # <<>>
  /\ Head(todo).prog = "mail2do-fetch-emails"
  /\ \E ok \in BOOLEAN :
       /\ files' = IF ok THEN written(files, Head(todo).outfile)
                   ELSE opened(files, Head(todo).outfile)
       /\ io_failed' = (io_failed \/ ~ok)
       /\ after_run(IF ok THEN 0 ELSE 1)
  /\ UNCHANGED << entry, read_tasks >>
  /\ UNCHANGED << schemaVars, uploadVars >>

\* notion_get_schema.main as a stage: it prints the payload or dies.
RunGetSchema ==
  /\ todo # <<>>
  /\ Head(todo).prog = "mail2do-get-schema"
  /\ \E ok \in BOOLEAN :
       /\ files' = IF ok THEN written(files, Head(todo).outfile)
                   ELSE opened(files, Head(todo).outfile)
       /\ io_failed' = (io_failed \/ ~ok)
       /\ after_run(IF ok THEN 0 ELSE 1)
  /\ UNCHANGED << entry, read_tasks >>
  /\ UNCHANGED << schemaVars, uploadVars >>

\* parse_emails.main: parse the command line, open the two inputs, ask the
\* model, print the tasks to standard output.
RunParseEmails ==
  /\ todo # <<>>
  /\ Head(todo).prog = "mail2do-parse-emails"
  /\ LET args == parse_args(Head(todo).argv)
         fs == opened(files, Head(todo).outfile)
     IN  IF args.status # 0
         THEN /\ files' = fs
              /\ io_failed' = io_failed
              /\ after_run(args.status)
         ELSE IF fs[args.emails_json] \notin { "old", "new" }
                 \/ fs[args.schema_json] \notin { "old", "new" }
         THEN /\ files' = fs
              /\ io_failed' = io_failed
              /\ after_run(1)
         ELSE \E ok \in BOOLEAN :
                /\ files' = IF ok THEN written(fs, Head(todo).outfile) ELSE fs
                /\ io_failed' = (io_failed \/ ~ok)
                /\ after_run(IF ok THEN 0 ELSE 1)
  /\ UNCHANGED << entry, read_tasks >>
  /\ UNCHANGED << schemaVars, uploadVars >>

\* notion_upload.main as a stage: json.load(open(sys.argv[1])), then the upload.
RunUpload ==
  /\ todo # <<>>
  /\ Head(todo).prog = "mail2do-upload"
  /\ LET fs == opened(files, Head(todo).outfile)
         tasks_file == fs[Head(todo).argv[1]]
     IN  /\ read_tasks' = tasks_file
         /\ IF tasks_file \notin { "old", "new" }
            THEN /\ files' = fs
                 /\ io_failed' = io_failed
                 /\ after_run(1)
            ELSE \E ok \in BOOLEAN :
                   /\ files' = IF ok THEN written(fs, Head(todo).outfile) ELSE fs
                   /\ io_failed' = (io_failed \/ ~ok)
                   /\ after_run(IF ok THEN 0 ELSE 1)
  /\ UNCHANGED << entry >>
  /\ UNCHANGED << schemaVars, uploadVars >>

\* ================================================================== upload
\* most tasks in tasks.json
MaxTasks == 2

Space == " "

\* str.strip(): without the leading and trailing blanks.
RECURSIVE lstrip(_)
lstrip(s) == IF s # <<>> /\ Head(s) = Space THEN lstrip(Tail(s)) ELSE s
RECURSIVE rstrip(_)
rstrip(s) ==
  IF s # <<>> /\ s[Len(s)] = Space THEN rstrip(SubSeq(s, 1, Len(s) - 1)) ELSE s
strip(s) == rstrip(lstrip(s))

BLOCKED_TASK_NAMES ==
  { <<"T", "o", "D", "o">>, <<"T", "a", "s", "k">>,
    <<"U", "n", "t", "i", "t", "l", "e", "d">>,
    <<"(", "u", "n", "n", "a", "m", "e", "d", " ", "t", "a", "s", "k", ")">> }

\* A JSON value of a task: kind is "null", "str", "num", "list" (of strings)
\* or "dict"; text is the string, items the elements of the list.
Value(kind, text, items) == [ kind |-> kind, text |-> text, items |-> items ]
Null == Value("null", <<>>, <<>>)
Str(text) == Value("str", text, <<>>)
Num == Value("num", <<>>, <<>>)
List(items) == Value("list", <<>>, items)
Dict == Value("dict", <<>>, <<>>)

\* float(str) succeeds: here, on the strings made of digits.
Digits == { "1", "2", "3", "4" }
is_float(text) ==
  strip(text) # <<>> /\ \A i \in 1..Len(strip(text)) : strip(text)[i] \in Digits

\* make_prop: Return("payload"), Return("None") or the exception raised.
make_prop(ptype, value, people_map) ==
  IF value.kind = "null" \/ (value.kind = "str" /\ value.text = <<>>)
     \/ (value.kind = "list" /\ value.items = <<>>)
  THEN Return("None")
  ELSE IF ptype \in { "title", "rich_text" }
  THEN (IF value.kind \in { "str", "list" } THEN Return("payload")
        ELSE IF value.kind = "dict" THEN Raise("KeyError")
        ELSE Raise("TypeError"))
  ELSE IF ptype \in { "url", "date" } THEN Return("payload")
  ELSE IF ptype = "number"
  THEN (IF value.kind = "num" THEN Return("payload")
        ELSE IF value.kind = "str"
        THEN (IF is_float(value.text) THEN Return("payload") ELSE Return("None"))
        ELSE Raise("TypeError"))
  ELSE IF ptype \in { "select", "status", "multi_select" } THEN Return("payload")
  ELSE IF ptype = "people"
  THEN (IF value.kind = "dict" THEN Raise("TypeError")
        ELSE LET names == IF value.kind = "list" THEN SeqToSet(value.items)
                          ELSE IF value.kind = "str" THEN { value.text } ELSE {}
             IN  IF names \cap people_map # {} THEN Return("payload")
                 ELSE Return("None"))
  ELSE IF ptype = "relation" THEN Return("payload")
  ELSE Return("None")

\* The loop over task.items(): the properties built, or the exception.
RECURSIVE build_props(_, _, _)
build_props(items, schema, people_map) ==
  IF items = <<>> THEN Return({})
  ELSE LET k == Head(items).key
           rest == build_props(Tail(items), schema, people_map)
       IN  IF ~DictHas(schema, k) THEN rest
           ELSE LET made == make_prop(DictGet(schema, k), Head(items).value, people_map)
                IN  IF ~made.ok THEN made
                    ELSE IF ~rest.ok THEN rest
                    ELSE IF made.val = "None" THEN rest
                    ELSE Return(rest.val \cup { k })

\* task.get("Task name") or "": the value when truthy, "" otherwise.
task_name(task) ==
  IF ~DictHas(task, "Task name") THEN Str(<<>>)
  ELSE LET v == DictGet(task, "Task name") IN
       IF v.kind = "null" \/ (v.kind = "str" /\ v.text = <<>>)
          \/ (v.kind = "list" /\ v.items = <<>>)
       THEN Str(<<>>) ELSE v

\* The database of the upload: property name -> type, and the workspace's people.
UploadSchema ==
  << [ key |-> "Task name", value |-> "title" ],
     [ key |-> "Due", value |-> "date" ],
     [ key |-> "Cost", value |-> "number" ],
     [ key |-> "Owner", value |-> "people" ] >>
PeopleMap == { <<"P">> }

Field(k, v) == [ key |-> k, value |-> v ]
Pay == <<"P", "a", "y">>

\* The tasks the extractor may have written: named, generic with and without
\* blanks around, unnamed, and values of every JSON kind.
TaskKinds ==
  { << Field("Task name", Str(Pay)), Field("Due", Str(<<"2">>)), Field("_mail2do_uid", Str(<<"1">>)) >>,
    << Field("Task name", Str(<<" ", "T", "a", "s", "k", " ">>)), Field("Due", Str(<<"2">>)) >>,
    << Field("Task name", Str(<<"U", "n", "t", "i", "t", "l", "e", "d">>)) >>,
    << Field("_mail2do_uid", Str(<<"1">>)) >>,
    << Field("Task name", Null), Field("Cost", Str(<<"1", "2">>)) >>,
    << Field("Task name", Str(Pay)), Field("Cost", List(<< <<"4">> >>)) >>,
    << Field("Task name", Num) >>,
    << Field("Cost", Str(<<"a">>)), Field("Owner", List(<< <<"x">>, <<"P">> >>)) >>,
    << Field("Task name", Str(Pay)), Field("Owner", Dict) >> }


Result(task, st) == [ task |-> task, status |-> st ]
Unnamed == <<"(", "u", "n", "n", "a", "m", "e", "d", ")">>

InitUpload ==
  /\ tasks \in SeqsUpTo(TaskKinds, MaxTasks)
  /\ upc = "name"
  /\ ti = 1
  /\ results = <<>>
  /\ uexc = ""
  /\ requests = <<>>

\* Lines 120-123: the name, and the generic names skipped.
UploadName ==
  /\ upc = "name"
  /\ ti <= Len(tasks)
  /\ LET name == task_name(tasks[ti]) IN
       IF name.kind # "str"
       THEN /\ upc' = "crashed"
            /\ uexc' = "AttributeError"
            /\ UNCHANGED << ti, results >>
       ELSE IF strip(name.text) \in BLOCKED_TASK_NAMES
       THEN /\ results' = Append(results,
                 Result(IF name.text = <<>> THEN Unnamed ELSE name.text,
                        "skipped (generic name)"))
            /\ ti' = ti + 1
            /\ UNCHANGED << upc, uexc >>
       ELSE /\ upc' = "exists"
            /\ UNCHANGED << ti, results, uexc >>
  /\ UNCHANGED << tasks, requests >>
  /\ UNCHANGED << schemaVars, cliVars >>

\* Lines 124-126 with page_exists: no request for an empty name; otherwise the
\* query finds a page, finds none, is refused or raises.
UploadExists ==
  /\ upc = "exists"
  /\ LET name == task_name(tasks[ti]).text IN
       \E answer \in IF name = <<>> THEN { "none" }
                     ELSE { "found", "empty", "refused", "raised" } :
          /\ requests' = IF name = <<>> THEN requests
                         ELSE Append(requests, [ kind |-> "query", task |-> ti,
                                                 answer |-> answer ])
          /\ IF answer = "found"
             THEN /\ results' = Append(results, Result(name, "skipped (already exists)"))
                  /\ ti' = ti + 1
                  /\ upc' = "name"
             ELSE /\ upc' = "create"
                  /\ UNCHANGED << ti, results >>
  /\ UNCHANGED << tasks, uexc >>
  /\ UNCHANGED << schemaVars, cliVars >>

\* Lines 128-146: the properties, and the page created or not.
UploadCreate ==
  /\ upc = "create"
  /\ LET name == task_name(tasks[ti]).text
         props == build_props(tasks[ti], UploadSchema, PeopleMap)
     IN  IF ~props.ok
         THEN /\ upc' = "crashed"
              /\ uexc' = props.exc
              /\ UNCHANGED << ti, results, requests >>
         ELSE IF props.val = {}
         THEN /\ results' = Append(results,
                   Result(IF name = <<>> THEN Unnamed ELSE name,
                          "failed (no mappable fields)"))
              /\ ti' = ti + 1
              /\ upc' = "name"
              /\ UNCHANGED << uexc, requests >>
         ELSE \E answer \in { "created", "refused", "raised" } :
                /\ requests' = Append(requests, [ kind |-> "create", task |-> ti,
                                                  answer |-> answer ])
                /\ IF answer = "raised"
                   THEN /\ upc' = "crashed"
                        /\ uexc' = "ConnectionError"
                        /\ UNCHANGED << ti, results >>
                   ELSE /\ results' = Append(results,
                             Result(name, IF answer = "created" THEN "created"
                                          ELSE "failed (message)"))
                        /\ ti' = ti + 1
                        /\ upc' = "name"
                        /\ uexc' = uexc
  /\ UNCHANGED << tasks >>
  /\ UNCHANGED << schemaVars, cliVars >>

\* Line 149: the results are printed.
UploadPrint ==
  /\ upc = "name"
  /\ ti > Len(tasks)
  /\ upc' = "done"
  /\ UNCHANGED << tasks, ti, results, uexc, requests >>
  /\ UNCHANGED << schemaVars, cliVars >>

\* ========================================================== specifications
vars == << schemaVars, cliVars, uploadVars >>

\* A program that is not the one started stays as it is.
SchemaOff ==
  /\ world = <<>> /\ pc = "off" /\ bfs = <<>> /\ db_pool = <<>> /\ missing = {}
  /\ idx = 0 /\ schema_out = <<>> /\ ref_out = <<>> /\ rows = <<>>
  /\ next_cursor = NoCursor /\ exc = "" /\ gets = <<>> /\ enqueued = <<>>
  /\ queries = <<>> /\ capped = FALSE
  /\ failed_pages = {}
CliOff ==
  /\ entry = "off" /\ todo = <<>> /\ files = <<>> /\ status = -1 /\ ran = <<>>
  /\ io_failed = FALSE /\ read_tasks = "unread"
UploadOff ==
  /\ tasks = <<>> /\ upc = "off" /\ ti = 0 /\ results = <<>> /\ uexc = ""
  /\ requests = <<>>

\* notion_get_schema.main
Init == InitSchema /\ CliOff /\ UploadOff
Next == BfsIter \/ BfsEnd \/ Extract \/ QueryPage \/ Collect \/ Emit
Spec == Init /\ [][Next]_vars

\* cli.main, and its stages called directly
InitPipeline == InitCli /\ SchemaOff /\ UploadOff
NextCli == RunFetchEmails \/ RunGetSchema \/ RunParseEmails \/ RunUpload
SpecCli == InitPipeline /\ [][NextCli]_vars

\* notion_upload.main
InitUploader == InitUpload /\ SchemaOff /\ CliOff
NextUpload == UploadName \/ UploadExists \/ UploadCreate \/ UploadPrint
SpecUpload == InitUploader /\ [][NextUpload]_vars

\* ------------------------------------------------ properties of the pipeline
\* C8: a run of cli.main in which no stage's external I/O failed ends with
\* the four stages having exited with status 0 in the order fetch-emails,
\* get-schema, parse-emails, upload, the upload having read the tasks.json
\* written in this run.
C8_PipelineReachesUpload ==
  (entry = "cli" /\ todo = <<>> /\ ~io_failed) =>
     /\ ran = << "mail2do-fetch-emails", "mail2do-get-schema",
                 "mail2do-parse-emails", "mail2do-upload" >>
     /\ read_tasks = "new"

\* ------------------------------------------------ properties of the uploader
Generic(i) ==
  /\ task_name(tasks[i]).kind = "str"
  /\ strip(task_name(tasks[i]).text) \in BLOCKED_TASK_NAMES

\* C9: a create request is sent for a task only if its name is not generic
\* and no existence query for it found a page; no request is sent for a
\* generic task; and when main has ended every task has its entry in
\* results, in input order.
C9_UploadResults ==
  /\ \A r \in 1..Len(requests) :
        /\ ~Generic(requests[r].task)
        /\ requests[r].kind = "create" =>
              \A q \in 1..Len(requests) :
                 (requests[q].task = requests[r].task /\ requests[q].kind = "query")
                    => requests[q].answer # "found"
  /\ upc \in { "done", "crashed" } =>
        /\ Len(results) = Len(tasks)
        /\ \A i \in 1..Len(tasks) :
              results[i].task \in { task_name(tasks[i]).text, Unnamed }

\* ------------------------------------------------ termination of the traversal
\* notion_get_schema.main is one sequential process: while the frontier is
\* not empty the next iteration of `while bfs` is run.
SpecLive == Init /\ [][Next]_vars /\ WF_vars(BfsIter)

\* An upper bound on the dequeues that one frontier entry for cid can cause
\* when the normalized ids of P are pooled: the entry itself and, if cid can
\* be read, the entries its scan appends for targets not pooled by then.
RECURSIVE Weight(_, _), WeightOfTargets(_, _, _)
Weight(cid, P) ==
  IF cid \notin DOMAIN world.server THEN 1
  ELSE 1 + WeightOfTargets(world.server[cid].properties, 1, P \cup {cid})

WeightOfTargets(props, i, P) ==
  IF i > Len(props) THEN 0
  ELSE (IF props[i].type = "relation" /\ Normalized(props[i].database_id) \notin P
        THEN Weight(Normalized(props[i].database_id), P) ELSE 0)
       + WeightOfTargets(props, i + 1, P)

RECURSIVE RankOf(_, _)
RankOf(frontier, P) ==
  IF frontier = <<>> THEN 0
  ELSE Weight(Normalized(Head(frontier)), P) + RankOf(Tail(frontier), P)

\* The dequeues still possible from the current frontier and pool.
Rank == RankOf(bfs, DictKeys(db_pool))

\* C11: the BFS loop of main terminates on every finite relation graph: each
\* iteration of the loop lowers a natural-number bound on the dequeues still
\* to come, and the frontier is eventually empty.
C11_BfsTerminates ==
  /\ [][(pc = "bfs" /\ bfs # <<>>) => Rank' < Rank]_vars
  /\ <>(pc = "bfs" /\ bfs = <<>>)

\* C11 happens: the loop has ended on a graph with two relations to b2, the
\* cycle a1 -> b2 -> a1 and the target d4 whose fetch always fails, d4
\* having been dequeued more than once.
C11_Witness ==
  /\ pc = "extract"
  /\ bfs = <<>>
  /\ Cardinality(References(B2)) >= 2
  /\ A1 \in RelationTargets(world.server[B2])
  /\ D4 \in missing
  /\ gets[D4] >= 2

\* ------------------------------------------------ properties of the extraction
\* C12: schema normalization never raises: once the traversal has ended,
\* extract_schema returns an entry for every pooled database, whatever the
\* shape of its property definitions, and main is never ended by an exception.
C12_ExtractNeverRaises ==
  /\ exc = ""
  /\ pc # "bfs" =>
        \A i \in 1..Len(db_pool) : extract_schema(db_pool[i].value, db_pool).ok

\* ------------------------------------------------ properties of the sampling
\* The positions <<record, cell>> of the records rs.
CellsOf(rs) ==
  UNION { { <<i, j>> : j \in 1..Len(rs[i]) } : i \in 1..Len(rs) }

\* What the cells named `name` of the records rs hold: joined titles that are
\* not empty, people's names and related ids that are not empty.
ValuesIn(rs, name) ==
  UNION { IF rs[i][j].name # name THEN {}
          ELSE IF rs[i][j].type = "title"
          THEN { join(rs[i][j].texts) } \ { <<>> }
          ELSE IF rs[i][j].type \in {"people", "relation"}
          THEN SeqToSet(rs[i][j].texts) \ { <<>> }
          ELSE {} :
          <<i, j>> \in CellsOf(rs) }

CellNames(rs) == { rs[i][j].name : <<i, j>> \in CellsOf(rs) }

\* No page request follows a failed one for the same database.
NoRequestAfterFailure ==
  \A i \in 1..(Len(queries) - 1) : queries[i] # "failed"

\* The reference of a database whose sampling a failed request ended holds
\* the declared options and the values of the pages received before.
PartialReference ==
  (pc = "extract" /\ idx > 1 /\ db_pool[idx - 1].key \in failed_pages) =>
     LET db == db_pool[idx - 1].value
         ref == DictGet(ref_out, db_pool[idx - 1].key)
     IN  /\ \A j \in 1..Len(db.properties) :
               LET p == db.properties[j] IN
               (p.type \in ChoiceTypes /\ p.options # <<>>) =>
                  /\ DictHas(ref, p.name)
                  /\ SeqToSet(p.options) \subseteq SeqToSet(DictGet(ref, p.name))
         /\ \A name \in CellNames(rows) :
               ValuesIn(rows, name) # {} =>
                  /\ DictHas(ref, name)
                  /\ ValuesIn(rows, name) \subseteq SeqToSet(DictGet(ref, name))

\* After a failed page request no exception ends main.
RunGoesOn == failed_pages # {} => (pc # "crashed" /\ exc = "")

\* C13: when the request for page k of a database fails, no further page
\* request is made for it, its reference holds the declared choice options
\* and the values of pages 1..k-1, no error is raised, and main goes on to
\* the remaining databases and the payload.
C13_PageFailureTruncates ==
  /\ NoRequestAfterFailure
  /\ PartialReference
  /\ RunGoesOn

\* C14: the records collect_reference_rows examines for the reference (those
\* left in rows when the paging loop ends) never number more than max_rows,
\* whatever the sizes of the pages the server returns.
C14_ExaminedWithinCap ==
  pc = "collect" => Len(rows) <= world.max_rows
====
